---- MODULE Spec2Model ----
(***************************************************************************)
(* TiLDA MkV STM32 USB/UART bridge firmware.                               *)
(*                                                                         *)
(*  - WebUsbClass (src/webusb/class.rs): control transfers, bus reset,     *)
(*    packet endpoints.  Specification: Spec.                              *)
(*  - the bridge loop of main() and set_pins (src/main.rs).                *)
(*    Specification: SpecBridge.                                           *)
(***************************************************************************)
EXTENDS Integers, Sequences, FiniteSets, TLC

VARIABLES
    \* ---- WebUsbClass fields (class.rs:44-53)
    line_coding,      \* LineCoding {data_rate, stop_bits, parity_type, data_bits}
    dtr,              \* bool
    rts,              \* bool
    \* ---- the last operation invoked on the class and how it was resolved
    op,               \* "new", "reset", "control_in", "control_out", ...
    req,              \* control::Request of the last control transfer
    data,             \* xfer.data() of the last control transfer (OUT)
    accepts,          \* number of xfer.accept / accept_with calls it made
    rejects,          \* number of xfer.reject calls it made
    response,         \* bytes it handed to the host (an accepted control IN)
    ret,              \* result of the last packet operation
    last_set,         \* history: first 7 payload bytes of the most recent accepted
                      \* SET_LINE_CODING since construction / bus reset (<<>> if none)
    \* ---- main() (main.rs)
    pc,               \* position of the bridge loop
    cdc_dtr,          \* usb_serial.dtr()  (SerialPort, CDC-ACM class)
    cdc_rts,          \* usb_serial.rts()
    esp_en,           \* level of pin PA1
    esp_gpio0,        \* level of pin PA4
    device_state,     \* usb_dev.state()
    led,              \* level of pin PB1
    pin_dtr,          \* first argument of the set_pins call in progress
    pin_rts,          \* second argument of the set_pins call in progress
    count,            \* bytes returned by the read being forwarded to the UART
    offset,           \* bytes of them the UART has accepted
    read_buf,         \* `buf`, the array both USB reads fill
    byte,             \* the byte the drain loop took from the UART last
    \* ---- history of one loop iteration
    cdc_read,         \* bytes usb_serial.read returned
    web_read,         \* bytes webusb.read returned
    web_read_issued,  \* webusb.read has been called
    uart_tx,          \* bytes uart.write accepted, in order
    uart_refused,     \* uart.write has refused a byte
    uart_rx,          \* bytes uart.read returned, in order
    cdc_offered,      \* <<byte, ok>> of each usb_serial.write, in order
    web_offered,      \* <<byte, ok>> of each webusb.write, in order
    \* ---- a DescriptorBuilder at work (builder.rs)
    script,           \* "none": no builder; "calls": a builder over a caller's
                      \* region; "ms_set": the builder of the MS OS 2.0 set
    builder,          \* DescriptorBuilder {buf, position}
    panicked,         \* a write went past the end of buf
    calls,            \* history: the write calls made on the builder, in order
    marks,            \* history: the position before each of them
    \* ---- the outbound half of the WebUSB stream facade
    write_buf,        \* bytes copied by write() and not yet submitted
    last_full,        \* the packet submitted last was a full max-size packet
    ep_busy,          \* the IN endpoint holds a packet the host has not taken
    writes,           \* number of write() calls so far
    wire              \* history: the packets submitted to the IN endpoint

classVars == <<line_coding, dtr, rts>>
xferVars == <<op, req, data, accepts, rejects, response, ret, last_set>>
bridgeVars ==
    <<pc, cdc_dtr, cdc_rts, esp_en, esp_gpio0, device_state, led, pin_dtr, pin_rts,
      count, offset, read_buf, byte, cdc_read, web_read, web_read_issued,
      uart_tx, uart_refused, uart_rx, cdc_offered, web_offered>>
builderVars == <<script, builder, panicked, calls, marks>>
facadeVars == <<write_buf, last_full, ep_busy, writes, wire>>
otherVars == <<builderVars, facadeVars>>
vars == <<classVars, xferVars, bridgeVars, otherVars>>

-----------------------------------------------------------------------------
(* Bounds of the model *)

\* wValue of a control request ranges over 0..MaxValue (plus two 16-bit values
\* with all higher bits set).
MaxValue == 4
\* A SET_LINE_CODING payload carries up to MaxExtra bytes after the 7 it needs.
MaxExtra == 1
\* A read of a USB class returns at most MaxRead bytes.
MaxRead == 2
\* the UART hands at most MaxDrain bytes to one run of the drain loop
MaxDrain == 2
\* a caller's region for a DescriptorBuilder has RegionLen bytes
RegionLen == 8
\* at most MaxCalls write calls are made on such a builder
MaxCalls == 3
\* max_packet_size of the bulk endpoints, in bytes
MaxPacket == 2
\* at most MaxWrites write() calls are made on the stream facade
MaxWrites == 4

-----------------------------------------------------------------------------
(* Constants of class.rs *)

WEBUSB_VENDOR_CODE == 66
WEBUSB_GET_URL == 2
WEBUSB_DESCRIPTOR_URL == 3
WEBUSB_SCHEME_HTTPS == 1
MS_VENDOR_CODE == 67
MS_GET_DESCRIPTOR_SET == 7
REQ_SEND_ENCAPSULATED_COMMAND == 0
REQ_GET_ENCAPSULATED_COMMAND == 1
REQ_SET_LINE_CODING == 32
REQ_GET_LINE_CODING == 33
REQ_SET_CONTROL_LINE_STATE == 34

\* mutant: the GUID list with one terminating NUL instead of two
MS_DEVICE_UUID_OneNul ==
    <<123, 102, 51, 55, 99, 99, 99, 101, 56, 45, 97, 55, 48, 102, 45, 52, 57,
      50, 97, 45, 97, 99, 102, 98, 45, 99, 102, 50, 98, 50, 100, 97, 98, 53,
      54, 97, 51, 125, 0>>

\* "{f37ccce8-a70f-492a-acfb-cf2b2dab56a3}\0\0"
MS_DEVICE_UUID ==
    <<123, 102, 51, 55, 99, 99, 99, 101, 56, 45, 97, 55, 48, 102, 45, 52, 57,
      50, 97, 45, 97, 99, 102, 98, 45, 99, 102, 50, 98, 50, 100, 97, 98, 53,
      54, 97, 51, 125, 0, 0>>

\* b"tide.emfcamp.org\0"
url == <<116, 105, 100, 101, 46, 101, 109, 102, 99, 97, 109, 112, 46, 111,
         114, 103, 0>>

\* The comm interface number: alloc.interface() in WebUsbClass::new, called
\* after SerialPort::new has taken interfaces 0 and 1.
comm_if == 2

-----------------------------------------------------------------------------
(* DescriptorBuilder (builder.rs) *)

DescriptorBuilder_new(buf) == [buf |-> buf, position |-> 0]

\* buf[position..position + len(bytes)] = bytes; the rest of buf is kept
Store(b, position, bytes) ==
    SubSeq(b, 1, position) \o bytes \o SubSeq(b, position + Len(bytes) + 1, Len(b))

write(db, bytes) ==
    [buf |-> Store(db.buf, db.position, bytes),
     position |-> db.position + Len(bytes)]

\* mutant: high byte first
write_u16_BigEndian(db, val) ==
    [buf |-> Store(db.buf, db.position, <<(val \div 256) % 256, val % 256>>),
     position |-> db.position + 2]

write_u16(db, val) ==
    [buf |-> Store(db.buf, db.position, <<val % 256, (val \div 256) % 256>>),
     position |-> db.position + 2]

write_u32(db, val) ==
    [buf |-> Store(db.buf, db.position,
                   <<val % 256, (val \div 256) % 256,
                     (val \div 65536) % 256, (val \div 16777216) % 256>>),
     position |-> db.position + 4]

\* val.encode_utf16(): the UTF-16 code units of a string given by its Unicode
\* scalar values; a value above 0xFFFF takes a surrogate pair
UnitsOf(c) ==
    IF c < 65536 THEN <<c>>
    ELSE <<55296 + ((c - 65536) \div 1024), 56320 + ((c - 65536) % 1024)>>

RECURSIVE encode_utf16(_)
encode_utf16(val) ==
    IF Len(val) = 0 THEN <<>>
    ELSE IF Len(val) = 1 THEN UnitsOf(val[1])
    ELSE encode_utf16(SubSeq(val, 1, Len(val) \div 2))
            \o encode_utf16(SubSeq(val, Len(val) \div 2 + 1, Len(val)))

\* for cp in .. { self.write_u16(cp); }
RECURSIVE WriteUnits(_, _)
WriteUnits(db, units) ==
    IF units = <<>> THEN db
    ELSE LET next == write_u16(db, Head(units)) IN
         \* an index past the end of buf panics: the loop goes no further
         IF next.position <= Len(db.buf) THEN WriteUnits(next, Tail(units))
         ELSE next

write_utf16(db, val) == WriteUnits(db, encode_utf16(val))

buf(db) == SubSeq(db.buf, 1, db.position)

\* a call of one of the four write methods
CallWrite(bytes) == [kind |-> "write", val |-> 0, str |-> bytes]
CallU16(val) == [kind |-> "write_u16", val |-> val, str |-> <<>>]
CallU32(val) == [kind |-> "write_u32", val |-> val, str |-> <<>>]
CallUtf16(val) == [kind |-> "write_utf16", val |-> 0, str |-> val]

ApplyCall(db, c) ==
    CASE c.kind = "write" -> write(db, c.str)
      [] c.kind = "write_u16" -> write_u16(db, c.val)
      [] c.kind = "write_u32" -> write_u32(db, c.val)
      [] c.kind = "write_utf16" -> write_utf16(db, c.str)

RECURSIVE ApplyCalls(_, _)
ApplyCalls(db, cs) ==
    IF cs = <<>> THEN db
    ELSE LET next == ApplyCall(db, Head(cs)) IN
         \* an index past the end of buf panics: no further call is made
         IF next.position <= Len(db.buf) THEN ApplyCalls(next, Tail(cs))
         ELSE next

\* the number of bytes of buf a call indexes from the cursor on
CallLength(c) ==
    CASE c.kind = "write" -> Len(c.str)
      [] c.kind = "write_u16" -> 2
      [] c.kind = "write_u32" -> 4
      [] c.kind = "write_utf16" -> 2 * Len(encode_utf16(c.str))

\* the slice and index expressions of the call stay inside buf (they panic
\* otherwise)
Fits(db, c) == db.position + CallLength(c) <= Len(db.buf)

-----------------------------------------------------------------------------
(* LineCoding and its enums (class.rs:365-450) *)

StopBits == {"One", "OnePointFive", "Two"}
ParityType == {"None", "Odd", "Event", "Mark", "Space"}

\* `stop_bits as u8`: the discriminant
StopBitsAsU8(s) ==
    CASE s = "One" -> 0 [] s = "OnePointFive" -> 1 [] s = "Two" -> 2

\* `parity_type as u8`
ParityTypeAsU8(p) ==
    CASE p = "None" -> 0 [] p = "Odd" -> 1 [] p = "Event" -> 2
      [] p = "Mark" -> 3 [] p = "Space" -> 4

\* mutant: an out-of-range byte is clamped to the largest variant
StopBitsFromU8_Clamp(value) ==
    IF value <= 2
    THEN CHOOSE s \in StopBits : StopBitsAsU8(s) = value
    ELSE "Two"

\* impl From<u8> for StopBits: transmute of an in-range value is the variant
\* with that discriminant
StopBitsFromU8(value) ==
    IF value <= 2
    THEN CHOOSE s \in StopBits : StopBitsAsU8(s) = value
    ELSE "One"

\* impl From<u8> for ParityType
ParityTypeFromU8(value) ==
    IF value <= 4
    THEN CHOOSE p \in ParityType : ParityTypeAsU8(p) = value
    ELSE "None"

\* u32::from_le_bytes
u32_from_le_bytes(b) == b[1] + 256 * b[2] + 65536 * b[3] + 16777216 * b[4]

\* mutant: the rate is written most significant byte first
u32_to_be_bytes(v) ==
    <<(v \div 16777216) % 256, (v \div 65536) % 256, (v \div 256) % 256, v % 256>>

\* u32::to_le_bytes
u32_to_le_bytes(v) ==
    <<v % 256, (v \div 256) % 256, (v \div 65536) % 256, (v \div 16777216) % 256>>

\* impl Default for LineCoding
LineCodingDefault ==
    [stop_bits |-> "One", data_bits |-> 8, parity_type |-> "None", data_rate |-> 8000]

\* the literal in WebUsbClass::new
NewLineCoding ==
    [stop_bits |-> "One", data_bits |-> 8, parity_type |-> "None", data_rate |-> 8000]

\* control_in, GET_LINE_CODING: the 7 bytes written into the transfer buffer
GetLineCodingBytes(lc) ==
    u32_to_le_bytes(lc.data_rate)
        \o <<StopBitsAsU8(lc.stop_bits), ParityTypeAsU8(lc.parity_type), lc.data_bits>>

\* control_out, SET_LINE_CODING: the LineCoding stored from payload d
SetLineCoding(d) ==
    [data_rate |-> u32_from_le_bytes(SubSeq(d, 1, 4)),
     stop_bits |-> StopBitsFromU8(d[5]),
     parity_type |-> ParityTypeFromU8(d[6]),
     data_bits |-> d[7]]

\* control_out, SET_CONTROL_LINE_STATE
LineStateDtr(value) == (value % 2) # 0

\* mutant: every bit above bit 0 counts as RTS
LineStateRts_NoMask(value) == (value \div 2) # 0

LineStateRts(value) == ((value \div 2) % 2) # 0

-----------------------------------------------------------------------------
(* Control transfers (class.rs:243-362) *)

\* control::Request: the fields of the setup packet the class reads
Request(t, rc, i, code, v, len) ==
    [request_type |-> t, recipient |-> rc, index |-> i, request |-> code,
     value |-> v, length |-> len]

\* no control transfer
NoRequest == Request("Standard", "Device", 0, 0, 0, 0)

\* req.request_type == Class && req.recipient == Interface
\*     && req.index == u8::from(self.comm_if) as u16
ForCommInterface(r) ==
    /\ r.request_type = "Class"
    /\ r.recipient = "Interface"
    /\ r.index = comm_if

\* mutant: the vendor request codes are not excepted from the filter
HandledIn_NoVendor(r) == ForCommInterface(r)

\* control_in does not return early
HandledIn(r) ==
    ~(/\ ~ForCommInterface(r)
      /\ r.request # WEBUSB_VENDOR_CODE
      /\ r.request # MS_VENDOR_CODE)

\* mutant: control_out has no filter
HandledOut_NoFilter(r) == TRUE

\* mutant: control_out does not compare the index with the comm interface
HandledOut_AnyInterface(r) ==
    /\ r.request_type = "Class"
    /\ r.recipient = "Interface"

\* control_out does not return early
HandledOut(r) == ~(~ForCommInterface(r))

\* mutant: GET_LINE_CODING is answered whatever its length
ControlInArm_NoLengthCheck(r) ==
    IF r.request = REQ_GET_LINE_CODING THEN "get_line_coding"
    ELSE IF r.request = WEBUSB_VENDOR_CODE /\ r.index = WEBUSB_GET_URL THEN "get_url"
    ELSE IF r.request = MS_VENDOR_CODE /\ r.index = MS_GET_DESCRIPTOR_SET
         THEN "get_descriptor_set"
    ELSE "reject"

\* the arm of `match req.request` taken by control_in
ControlInArm(r) ==
    IF r.request = REQ_GET_LINE_CODING /\ r.length = 7 THEN "get_line_coding"
    ELSE IF r.request = WEBUSB_VENDOR_CODE /\ r.index = WEBUSB_GET_URL THEN "get_url"
    ELSE IF r.request = MS_VENDOR_CODE /\ r.index = MS_GET_DESCRIPTOR_SET
         THEN "get_descriptor_set"
    ELSE "reject"

\* the arm of `match req.request` taken by control_out
ControlOutArm(r, d) ==
    IF r.request = REQ_SEND_ENCAPSULATED_COMMAND THEN "send_encapsulated_command"
    ELSE IF r.request = REQ_SET_LINE_CODING /\ Len(d) >= 7 THEN "set_line_coding"
    ELSE IF r.request = REQ_SET_CONTROL_LINE_STATE THEN "set_control_line_state"
    ELSE "reject"

\* mutant: the length counts all of `url`, its NUL included
UrlDescriptor_WholeUrl ==
    LET length == Len(url) + 3
        filled == <<length % 256, WEBUSB_DESCRIPTOR_URL, WEBUSB_SCHEME_HTTPS>> \o url
    IN  SubSeq(filled, 1, length)

\* WebUSB URL descriptor: the closure fills the transfer buffer and returns
\* `length`, the number of bytes of it that are sent
UrlDescriptor ==
    LET length == Len(url) + 2
        filled == <<length % 256, WEBUSB_DESCRIPTOR_URL, WEBUSB_SCHEME_HTTPS>> \o url
    IN  SubSeq(filled, 1, length)

\* mutant: the property name without its terminating NUL
MsRegistryPropertyName_NoNul ==
    <<68, 101, 118, 105, 99, 101, 73, 110, 116, 101,
      114, 102, 97, 99, 101, 71, 85, 73, 68, 115>>

\* "DeviceInterfaceGUIDs\0"
MsRegistryPropertyName ==
    <<68, 101, 118, 105, 99, 101, 73, 110, 116, 101,
      114, 102, 97, 99, 101, 71, 85, 73, 68, 115, 0>>

\* let mut buf: [u8; 180]
MsBufferLen == 180

\* the calls the MS_GET_DESCRIPTOR_SET arm makes on its DescriptorBuilder
MsCalls ==
    << \* descriptor set header
       CallU16(10), CallU16(0), CallU32(100859904), CallU16(178),
       \* configuration subset header
       CallU16(8), CallU16(1), CallWrite(<<0, 0>>), CallU16(168),
       \* function subset header
       CallU16(8), CallU16(2), CallWrite(<<2, 0>>), CallU16(160),
       \* compatible ID descriptor
       CallU16(20), CallU16(3), CallWrite(<<87, 73, 78, 85, 83, 66, 0, 0>>),
       CallWrite(<<0, 0, 0, 0, 0, 0, 0, 0>>),
       \* registry property descriptor
       CallU16(132), CallU16(4), CallU16(7), CallU16(42),
       CallUtf16(MsRegistryPropertyName), CallU16(80), CallUtf16(MS_DEVICE_UUID) >>

\* Microsoft OS 2.0 descriptor set, built in a 180 byte buffer: db.buf()
MsDescriptorSet ==
    buf(ApplyCalls(DescriptorBuilder_new([i \in 1..MsBufferLen |-> 0]), MsCalls))

\* the data of the two platform capabilities of the BOS descriptor
WebUsbCapability ==
    <<0, 56, 182, 8, 52, 169, 9, 160, 71, 139, 253, 160, 118, 136, 21, 182, 101,
      0, 1, WEBUSB_VENDOR_CODE, 1>>

MsOsCapability ==
    <<0, 223, 96, 221, 216, 137, 69, 199, 76, 156, 210, 101, 157, 158, 100, 138, 159,
      0, 0, 3, 6, 178, 0, MS_VENDOR_CODE, 0>>

\* UsbClass::get_bos_descriptors: both capabilities are handed to the writer
get_bos_descriptors ==
    /\ op' = "get_bos_descriptors"
    /\ response' = WebUsbCapability \o MsOsCapability
    /\ req' = NoRequest /\ data' = <<>> /\ accepts' = 0 /\ rejects' = 0 /\ ret' = "none"
    /\ UNCHANGED <<line_coding, dtr, rts, last_set>>

\* UsbClass::control_in
control_in(r) ==
    /\ op' = "control_in"
    /\ req' = r
    /\ data' = <<>>
    /\ ret' = "none"
    /\ UNCHANGED <<classVars, last_set>>
    /\ IF ~HandledIn(r)
       THEN /\ accepts' = 0 /\ rejects' = 0 /\ response' = <<>>
       ELSE LET arm == ControlInArm(r) IN
            /\ accepts' = (IF arm = "reject" THEN 0 ELSE 1)
            /\ rejects' = (IF arm = "reject" THEN 1 ELSE 0)
            /\ response' =
                 CASE arm = "get_line_coding" -> GetLineCodingBytes(line_coding)
                   [] arm = "get_url" -> UrlDescriptor
                   [] arm = "get_descriptor_set" -> MsDescriptorSet
                   [] OTHER -> <<>>

\* UsbClass::control_out
control_out(r, d) ==
    /\ op' = "control_out"
    /\ req' = r
    /\ data' = d
    /\ ret' = "none"
    /\ response' = <<>>
    /\ IF ~HandledOut(r)
       THEN /\ accepts' = 0 /\ rejects' = 0
            /\ UNCHANGED <<line_coding, dtr, rts, last_set>>
       ELSE LET arm == ControlOutArm(r, d) IN
            /\ accepts' = (IF arm = "reject" THEN 0 ELSE 1)
            /\ rejects' = (IF arm = "reject" THEN 1 ELSE 0)
            /\ line_coding' =
                 (IF arm = "set_line_coding" THEN SetLineCoding(d) ELSE line_coding)
            /\ last_set' =
                 (IF arm = "set_line_coding" THEN SubSeq(d, 1, 7) ELSE last_set)
            /\ dtr' = (IF arm = "set_control_line_state"
                       THEN LineStateDtr(r.value) ELSE dtr)
            /\ rts' = (IF arm = "set_control_line_state"
                       THEN LineStateRts(r.value) ELSE rts)

\* mutant: reset leaves the line coding alone
ResetLineCoding_Keep == line_coding

\* the LineCoding stored by UsbClass::reset
ResetLineCoding == LineCodingDefault

\* UsbClass::reset
reset ==
    /\ line_coding' = ResetLineCoding
    /\ dtr' = FALSE
    /\ rts' = FALSE
    /\ op' = "reset"
    /\ ret' = "none"
    /\ last_set' = <<>>
    /\ UNCHANGED <<req, data, accepts, rejects, response>>

\* results of a packet operation on a bulk endpoint
PacketResults == {"Ok", "WouldBlock"}

\* WebUsbClass::write_packet: write_ep.write(data); the endpoint answers
\* WouldBlock while the previous packet has not been sent
write_packet(result) ==
    /\ op' = "write_packet"
    /\ ret' = result
    /\ req' = NoRequest /\ data' = <<>> /\ accepts' = 0 /\ rejects' = 0 /\ response' = <<>>
    /\ UNCHANGED <<line_coding, dtr, rts, last_set>>

\* WebUsbClass::read_packet: read_ep.read(data); the endpoint answers
\* WouldBlock when there is no packet to be read
read_packet(result) ==
    /\ op' = "read_packet"
    /\ ret' = result
    /\ req' = NoRequest /\ data' = <<>> /\ accepts' = 0 /\ rejects' = 0 /\ response' = <<>>
    /\ UNCHANGED <<line_coding, dtr, rts, last_set>>

-----------------------------------------------------------------------------
(* The control transfers the host may send *)

RequestTypes == {"Standard", "Class", "Vendor"}
Recipients == {"Device", "Interface"}
Indexes == {comm_if, MS_GET_DESCRIPTOR_SET}
RequestCodes ==
    {REQ_SEND_ENCAPSULATED_COMMAND, REQ_GET_ENCAPSULATED_COMMAND,
     REQ_SET_LINE_CODING, REQ_GET_LINE_CODING, REQ_SET_CONTROL_LINE_STATE,
     WEBUSB_VENDOR_CODE, MS_VENDOR_CODE, 153}
Values == (0..MaxValue) \cup {65533, 65534}

\* SET_LINE_CODING payloads of exactly 7 bytes: 115200 baud with 8 data bits,
\* 0x7F0302FF baud with 7 (the most significant byte of the rate stays below
\* 128: TLC's integers are 32 bit signed)
Payloads7 ==
    {x[1] \o <<s, p, x[2]>> :
        x \in {<< <<0, 194, 1, 0>>, 8 >>, << <<255, 2, 3, 127>>, 7 >>},
        s \in {0, 1, 2, 3}, p \in {0, 3, 4, 5}}

SamplePayload == <<0, 194, 1, 0, 2, 4, 7>>

RECURSIVE Padding(_)
Padding(n) == IF n = 0 THEN <<>> ELSE <<170>> \o Padding(n - 1)

\* payloads that are too short or carry extra bytes
PayloadsOtherLen ==
    {SubSeq(SamplePayload, 1, n) : n \in {0, 6}}
        \cup {SamplePayload \o Padding(n) : n \in 1..MaxExtra}
        \cup {<<1, 2, 3, 4, 255, 255, 8>> \o Padding(n) : n \in 0..MaxExtra}

\* control IN transfers: every request type, recipient, index and code with
\* wLength 7, and GET_LINE_CODING to the comm interface with other lengths
ControlInRequests ==
    {Request(t, rc, i, code, 0, 7) :
        t \in RequestTypes, rc \in Recipients, i \in Indexes, code \in RequestCodes}
    \cup
    {Request("Class", "Interface", comm_if, REQ_GET_LINE_CODING, 0, len) :
        len \in {0, 6, 8}}

\* control OUT transfers <<request, payload>>: every request type, recipient,
\* index and code; every wValue for SET_CONTROL_LINE_STATE and every payload
\* for SET_LINE_CODING to the comm interface, one of each to the others
ControlOutTransfers ==
    {<<Request(t, rc, i, code, 0, 0), <<>> >> :
        t \in RequestTypes, rc \in Recipients, i \in Indexes, code \in RequestCodes}
    \cup
    {<<Request(t, rc, i, REQ_SET_CONTROL_LINE_STATE, 3, 0), <<>> >> :
        t \in RequestTypes, rc \in Recipients, i \in Indexes}
    \cup
    {<<Request("Class", "Interface", comm_if, REQ_SET_CONTROL_LINE_STATE, v, 0), <<>> >> :
        v \in Values}
    \cup
    {<<Request(t, rc, i, REQ_SET_LINE_CODING, 0, 7), SamplePayload>> :
        t \in RequestTypes, rc \in Recipients, i \in Indexes}
    \cup
    {<<Request("Class", "Interface", comm_if, REQ_SET_LINE_CODING, 0, Len(d)), d>> :
        d \in Payloads7 \cup PayloadsOtherLen}

-----------------------------------------------------------------------------
(* WebUsbClass driven by the USB stack: specification Spec *)

\* WebUsbClass::new
InitClass ==
    /\ line_coding = NewLineCoding
    /\ dtr = FALSE
    /\ rts = FALSE
    /\ op = "new"
    /\ req = NoRequest
    /\ data = <<>>
    /\ accepts = 0
    /\ rejects = 0
    /\ response = <<>>
    /\ ret = "none"
    /\ last_set = <<>>

\* main() up to the loop: both pins are driven high
InitBridge ==
    /\ pc = "poll"
    /\ cdc_dtr = FALSE
    /\ cdc_rts = FALSE
    /\ esp_en = TRUE
    /\ esp_gpio0 = TRUE
    /\ device_state = "Default"
    /\ led = TRUE
    /\ pin_dtr = TRUE
    /\ pin_rts = TRUE
    /\ count = 0
    /\ offset = 0
    /\ read_buf = <<>>
    /\ byte = 0
    /\ cdc_read = <<>>
    /\ web_read = <<>>
    /\ web_read_issued = FALSE
    /\ uart_tx = <<>>
    /\ uart_refused = FALSE
    /\ uart_rx = <<>>
    /\ cdc_offered = <<>>
    /\ web_offered = <<>>

\* no DescriptorBuilder exists
InitBuilder ==
    /\ script = "none"
    /\ builder = DescriptorBuilder_new(<<>>)
    /\ panicked = FALSE
    /\ calls = <<>>
    /\ marks = <<>>

\* the facade after construction: nothing buffered, nothing sent
InitFacade ==
    /\ write_buf = <<>>
    /\ last_full = FALSE
    /\ ep_busy = FALSE
    /\ writes = 0
    /\ wire = <<>>

Init == InitClass /\ InitBridge /\ InitBuilder /\ InitFacade

Reset == reset /\ UNCHANGED <<bridgeVars, otherVars>>

ControlIn == \E r \in ControlInRequests : control_in(r) /\ UNCHANGED <<bridgeVars, otherVars>>

ControlOut ==
    \E x \in ControlOutTransfers : control_out(x[1], x[2]) /\ UNCHANGED <<bridgeVars, otherVars>>

WritePacket == \E result \in PacketResults : write_packet(result) /\ UNCHANGED <<bridgeVars, otherVars>>

ReadPacket == \E result \in PacketResults : read_packet(result) /\ UNCHANGED <<bridgeVars, otherVars>>

GetBosDescriptors == get_bos_descriptors /\ UNCHANGED <<bridgeVars, otherVars>>

Next ==
    \/ Reset
    \/ GetBosDescriptors
    \/ ControlIn
    \/ ControlOut
    \/ WritePacket
    \/ ReadPacket

Spec == Init /\ [][Next]_vars

-----------------------------------------------------------------------------
(* main(): the bridge loop (main.rs:72-122) and set_pins (main.rs:128-158). *)
(* Specification SpecBridge.                                               *)

\* mutant: outside the special case the RTS level goes to esp_gpio0
Gpio0Level_FollowsRts(d, r) ==
    IF ~r /\ ~d THEN TRUE
    ELSE IF r THEN TRUE ELSE FALSE

\* set_pins: the level written to esp_gpio0 for arguments (d, r)
Gpio0Level(d, r) ==
    IF ~r /\ ~d THEN TRUE
    ELSE IF d THEN TRUE ELSE FALSE

\* mutant: no special case for both arguments low
EnLevel_NoDualCase(d, r) == r

\* set_pins: the level written to esp_en for arguments (d, r)
EnLevel(d, r) ==
    IF ~r /\ ~d THEN TRUE
    ELSE IF r THEN TRUE ELSE FALSE

\* mutant: the WebUSB class's DTR is not ORed in
PinsDtrArg_CdcOnly == ~cdc_dtr

\* the first argument of the set_pins call: !(usb_serial.dtr() || webusb.dtr())
PinsDtrArg == ~(cdc_dtr \/ dtr)

\* the second argument of the set_pins call: !(usb_serial.rts() || webusb.rts())
PinsRtsArg == ~(cdc_rts \/ rts)

\* SET_CONTROL_LINE_STATE transfers the host sends to the WebUSB comm interface
\* while the bridge runs
BridgeControlOuts ==
    {<<Request("Class", "Interface", comm_if, REQ_SET_CONTROL_LINE_STATE, v, 0), <<>> >> :
        v \in 0..3}

\* the bytes the host has queued for the CDC-ACM class and for the WebUSB class,
\* and the bytes the ESP32 sends: all distinct, so that a lost, repeated or
\* misplaced byte shows
CdcBytes(n) == [i \in 1..n |-> i]
WebBytes(n) == [i \in 1..n |-> 16 + i]
UartByte(k) == 32 + k

\* let mut buf = [0u8; 64]
NewBuf == [i \in 1..MaxRead |-> 0]

readVars == <<cdc_read, web_read, web_read_issued, uart_tx, uart_refused>>
drainVars == <<uart_rx, cdc_offered, web_offered>>
historyVars == <<readVars, drainVars>>
dataVars == <<count, offset, read_buf, byte>>
pinVars == <<esp_en, esp_gpio0, pin_dtr, pin_rts>>
loopVars == <<pinVars, dataVars, readVars>>

\* a new iteration of the loop begins: its history is empty
StartIteration ==
    /\ uart_rx' = <<>>
    /\ cdc_offered' = <<>>
    /\ web_offered' = <<>>

\* usb_dev.poll: nothing happened on the bus; poll returns false
PollNone ==
    /\ pc = "poll"
    /\ StartIteration
    /\ pc' = "check_state"
    /\ UNCHANGED <<classVars, xferVars, cdc_dtr, cdc_rts, device_state, led, loopVars>>
    /\ UNCHANGED otherVars

\* usb_dev.poll: bus reset; both classes are reset. Whether poll reports the
\* reset as activity is decided by the USB stack: either result.
PollReset ==
    /\ pc = "poll"
    /\ StartIteration
    /\ reset
    /\ cdc_dtr' = FALSE
    /\ cdc_rts' = FALSE
    /\ device_state' = "Default"
    /\ \E active \in BOOLEAN :
          /\ pc' = (IF active THEN "read_cdc" ELSE "check_state")
          /\ led' = (IF active THEN FALSE ELSE led)
    /\ UNCHANGED loopVars
    /\ UNCHANGED otherVars

\* usb_dev.poll: a control OUT transfer is dispatched to the WebUSB class
PollWebUsbControl ==
    /\ pc = "poll"
    /\ StartIteration
    /\ \E x \in BridgeControlOuts : control_out(x[1], x[2])
    /\ pc' = "read_cdc"
    /\ led' = FALSE
    /\ UNCHANGED <<cdc_dtr, cdc_rts, device_state, loopVars>>
    /\ UNCHANGED otherVars

\* usb_dev.poll: the host sets the control lines of the CDC-ACM class
PollCdcLineState ==
    /\ pc = "poll"
    /\ StartIteration
    /\ cdc_dtr' \in BOOLEAN
    /\ cdc_rts' \in BOOLEAN
    /\ pc' = "read_cdc"
    /\ led' = FALSE
    /\ UNCHANGED <<classVars, xferVars, device_state, loopVars>>
    /\ UNCHANGED otherVars

\* usb_dev.poll: the host gives the device its address
PollAddress ==
    /\ pc = "poll"
    /\ StartIteration
    /\ device_state = "Default"
    /\ device_state' = "Addressed"
    /\ pc' = "read_cdc"
    /\ led' = FALSE
    /\ UNCHANGED <<classVars, xferVars, cdc_dtr, cdc_rts, loopVars>>
    /\ UNCHANGED otherVars

\* usb_dev.poll: the host configures the device
PollConfigure ==
    /\ pc = "poll"
    /\ StartIteration
    /\ device_state' = "Configured"
    /\ pc' = "read_cdc"
    /\ led' = FALSE
    /\ UNCHANGED <<classVars, xferVars, cdc_dtr, cdc_rts, loopVars>>
    /\ UNCHANGED otherVars

\* usb_dev.poll: data moved on an endpoint
PollData ==
    /\ pc = "poll"
    /\ StartIteration
    /\ pc' = "read_cdc"
    /\ led' = FALSE
    /\ UNCHANGED <<classVars, xferVars, cdc_dtr, cdc_rts, device_state, loopVars>>
    /\ UNCHANGED otherVars

\* usb_serial.read(&mut buf): Ok(n) with n bytes at the start of the fresh buf,
\* or an error (no bytes)
ReadCdc ==
    /\ pc = "read_cdc"
    /\ \E n \in 0..MaxRead :
          /\ count' = n
          /\ offset' = 0
          /\ read_buf' = Store(NewBuf, 0, CdcBytes(n))
          /\ cdc_read' = CdcBytes(n)
          /\ pc' = (IF n > 0 THEN "forward_cdc" ELSE "read_webusb")
    /\ web_read' = <<>>
    /\ web_read_issued' = FALSE
    /\ uart_tx' = <<>>
    /\ uart_refused' = FALSE
    /\ UNCHANGED <<classVars, xferVars, cdc_dtr, cdc_rts, device_state, led, pinVars,
                   byte, drainVars>>
    /\ UNCHANGED otherVars

\* mutant: the offset moves on whether or not the UART took the byte
NextOffset_Always(off, accepted) == off + 1

\* if let Ok(()) = uart.write(buf[offset]) { offset += 1; }
NextOffset(off, accepted) == IF accepted THEN off + 1 ELSE off

\* mutant: one attempt per byte, the loop is left whatever the UART answered
LoopPc_Once(off, cnt, here, next) == next

\* while offset < count { .. }: back to the loop body, or on to what follows
LoopPc(off, cnt, here, next) == IF off < cnt THEN here ELSE next

\* uart.write(buf[offset]): what the transmitter has taken so far
UartWrite(tx, b, accepted) == IF accepted THEN Append(tx, b) ELSE tx

\* while offset < count: uart.write(buf[offset]) is accepted or not
ForwardCdc ==
    /\ pc = "forward_cdc"
    /\ \E accepted \in BOOLEAN :
          /\ uart_tx' = UartWrite(uart_tx, read_buf[offset + 1], accepted)
          /\ uart_refused' = (uart_refused \/ ~accepted)
          /\ offset' = NextOffset(offset, accepted)
          /\ pc' = LoopPc(offset', count, "forward_cdc", "read_webusb")
    /\ UNCHANGED <<classVars, xferVars, cdc_dtr, cdc_rts, device_state, led, pinVars,
                   count, read_buf, byte, cdc_read, web_read, web_read_issued, drainVars>>
    /\ UNCHANGED otherVars

\* webusb.read(&mut buf): the bytes land at the start of the same buf
ReadWebUsb ==
    /\ pc = "read_webusb"
    /\ \E n \in 0..MaxRead :
          /\ count' = n
          /\ offset' = 0
          /\ read_buf' = Store(read_buf, 0, WebBytes(n))
          /\ web_read' = WebBytes(n)
          /\ pc' = (IF n > 0 THEN "forward_webusb" ELSE "set_pins")
    /\ web_read_issued' = TRUE
    /\ UNCHANGED <<classVars, xferVars, cdc_dtr, cdc_rts, device_state, led, pinVars,
                   byte, cdc_read, uart_tx, uart_refused, drainVars>>
    /\ UNCHANGED otherVars

ForwardWebUsb ==
    /\ pc = "forward_webusb"
    /\ \E accepted \in BOOLEAN :
          /\ uart_tx' = UartWrite(uart_tx, read_buf[offset + 1], accepted)
          /\ uart_refused' = (uart_refused \/ ~accepted)
          /\ offset' = NextOffset(offset, accepted)
          /\ pc' = LoopPc(offset', count, "forward_webusb", "set_pins")
    /\ UNCHANGED <<classVars, xferVars, cdc_dtr, cdc_rts, device_state, led, pinVars,
                   count, read_buf, byte, cdc_read, web_read, web_read_issued, drainVars>>
    /\ UNCHANGED otherVars

\* the call set_pins(!(dtr || dtr), !(rts || rts), ..)
SetPinsCall ==
    /\ pc = "set_pins"
    /\ pin_dtr' = PinsDtrArg
    /\ pin_rts' = PinsRtsArg
    /\ pc' = "set_gpio0"
    /\ UNCHANGED <<classVars, xferVars, cdc_dtr, cdc_rts, device_state, led,
                   esp_en, esp_gpio0, dataVars, historyVars>>
    /\ UNCHANGED otherVars

\* set_pins: the write to esp_gpio0 (it comes first in both branches)
SetGpio0 ==
    /\ pc = "set_gpio0"
    /\ esp_gpio0' = Gpio0Level(pin_dtr, pin_rts)
    /\ pc' = "set_en"
    /\ UNCHANGED <<classVars, xferVars, cdc_dtr, cdc_rts, device_state, led,
                   esp_en, pin_dtr, pin_rts, dataVars, historyVars>>
    /\ UNCHANGED otherVars

\* set_pins: the write to esp_en
SetEn ==
    /\ pc = "set_en"
    /\ esp_en' = EnLevel(pin_dtr, pin_rts)
    /\ pc' = "pins_set"
    /\ UNCHANGED <<classVars, xferVars, cdc_dtr, cdc_rts, device_state, led,
                   esp_gpio0, pin_dtr, pin_rts, dataVars, historyVars>>
    /\ UNCHANGED otherVars

\* led.set_high() after set_pins has returned; buf goes out of scope
LedHigh ==
    /\ pc = "pins_set"
    /\ led' = TRUE
    /\ pc' = "check_state"
    /\ count' = 0
    /\ offset' = 0
    /\ read_buf' = <<>>
    /\ cdc_read' = <<>>
    /\ web_read' = <<>>
    /\ web_read_issued' = FALSE
    /\ uart_tx' = <<>>
    /\ uart_refused' = FALSE
    /\ UNCHANGED <<classVars, xferVars, cdc_dtr, cdc_rts, device_state, pinVars,
                   byte, drainVars>>
    /\ UNCHANGED otherVars

\* mutant: the UART is drained in every state of the device
DrainEnabled_Always == TRUE

\* usb_dev.state() == UsbDeviceState::Configured
DrainEnabled == device_state = "Configured"

\* if usb_dev.state() == UsbDeviceState::Configured
CheckState ==
    /\ pc = "check_state"
    /\ pc' = (IF DrainEnabled THEN "drain" ELSE "poll")
    /\ UNCHANGED <<classVars, xferVars, cdc_dtr, cdc_rts, device_state, led, loopVars,
                   drainVars>>
    /\ UNCHANGED otherVars

\* while let Ok(byte) = uart.read(): the receiver has a byte, or it has none
\* (or reports an error) and the loop ends with led.set_high()
DrainRead ==
    /\ pc = "drain"
    /\ \/ /\ Len(uart_rx) < MaxDrain
          /\ byte' = UartByte(Len(uart_rx) + 1)
          /\ uart_rx' = Append(uart_rx, byte')
          /\ led' = FALSE
          /\ pc' = "write_cdc"
       \/ /\ led' = TRUE
          /\ pc' = "poll"
          /\ byte' = 0
          /\ UNCHANGED uart_rx
    /\ UNCHANGED <<classVars, xferVars, cdc_dtr, cdc_rts, device_state, pinVars,
                   count, offset, read_buf, readVars, cdc_offered, web_offered>>
    /\ UNCHANGED otherVars

\* mutant: a refused write to the CDC-ACM class ends the pass for this byte
AfterCdcWrite_StopOnError(ok) == IF ok THEN "write_webusb" ELSE "drain"

\* let _ = usb_serial.write(&[byte]); the result is dropped
AfterCdcWrite(ok) == "write_webusb"

\* let _ = usb_serial.write(&[byte])
DrainWriteCdc ==
    /\ pc = "write_cdc"
    /\ \E ok \in BOOLEAN :
          /\ cdc_offered' = Append(cdc_offered, <<byte, ok>>)
          /\ pc' = AfterCdcWrite(ok)
    /\ UNCHANGED <<classVars, xferVars, cdc_dtr, cdc_rts, device_state, led, pinVars,
                   dataVars, readVars, uart_rx, web_offered>>
    /\ UNCHANGED otherVars

\* let _ = webusb.write(&[byte]); then back to the head of the while loop
DrainWriteWebUsb ==
    /\ pc = "write_webusb"
    /\ \E ok \in BOOLEAN : web_offered' = Append(web_offered, <<byte, ok>>)
    /\ pc' = "drain"
    /\ UNCHANGED <<classVars, xferVars, cdc_dtr, cdc_rts, device_state, led, pinVars,
                   dataVars, readVars, uart_rx, cdc_offered>>
    /\ UNCHANGED otherVars

NextBridge ==
    \/ PollNone
    \/ PollReset
    \/ PollWebUsbControl
    \/ PollCdcLineState
    \/ PollAddress
    \/ PollConfigure
    \/ PollData
    \/ ReadCdc
    \/ ForwardCdc
    \/ ReadWebUsb
    \/ ForwardWebUsb
    \/ SetPinsCall
    \/ SetGpio0
    \/ SetEn
    \/ LedHigh
    \/ CheckState
    \/ DrainRead
    \/ DrainWriteCdc
    \/ DrainWriteWebUsb

SpecBridge == Init /\ [][NextBridge]_vars

\* a step of a forwarding loop in which the UART transmitter takes the byte
UartAccepts ==
    /\ ForwardCdc \/ ForwardWebUsb
    /\ offset' = offset + 1

\* the two `while offset < count` loops
ForwardLoops == {"forward_cdc", "forward_webusb"}

\* a step of the loop outside the forwarding loops: no such step waits
LoopRuns ==
    /\ pc \notin ForwardLoops
    /\ NextBridge

\* The loop is the only thread and always runs on; the UART transmitter takes
\* an offered byte sooner or later. (The receiver runs out of bytes after
\* MaxDrain of them.)
SpecBridgeLive ==
    /\ SpecBridge
    /\ WF_vars(LoopRuns)
    /\ WF_vars(UartAccepts)

-----------------------------------------------------------------------------
(* Properties of the bridge loop (SpecBridge) *)

CombinedDtr == cdc_dtr \/ dtr

CombinedRts == cdc_rts \/ rts

\* <<EN, IO0>> of the boot-mode table for inputs <<DTR, RTS>>:
\* 1 1 -> 1 1, 0 0 -> 1 1, 1 0 -> 0 1, 0 1 -> 1 0
BootModeTable(d, r) ==
    CASE d /\ r -> <<TRUE, TRUE>>
      [] ~d /\ ~r -> <<TRUE, TRUE>>
      [] d /\ ~r -> <<FALSE, TRUE>>
      [] ~d /\ r -> <<TRUE, FALSE>>

\* C1 as stated: after the GPIO update <<EN, IO0>> is the row of the boot-mode
\* table selected by the combined DTR and RTS in their asserted sense.
C1_TableOfAssertedLines ==
    pc = "pins_set" =>
        <<esp_en, esp_gpio0>> = BootModeTable(CombinedDtr, CombinedRts)

\* C1 as amended: after the GPIO update <<EN, IO0>> is the row of the boot-mode
\* table selected by the serial line levels, the inverses of the combined
\* asserted flags: asserted (1,1) -> (1,1), (0,0) -> (1,1), DTR only ->
\* EN = 1, IO0 = 0, RTS only -> EN = 0, IO0 = 1.
C1_TableOfLineLevels ==
    pc = "pins_set" =>
        /\ <<esp_en, esp_gpio0>> = BootModeTable(~CombinedDtr, ~CombinedRts)
        /\ (CombinedDtr /\ CombinedRts) => (esp_en /\ esp_gpio0)
        /\ (~CombinedDtr /\ ~CombinedRts) => (esp_en /\ esp_gpio0)
        /\ (CombinedDtr /\ ~CombinedRts) => (esp_en /\ ~esp_gpio0)
        /\ (~CombinedDtr /\ CombinedRts) => (~esp_en /\ esp_gpio0)

\* CDC dtr = 1, rts = 0 with WebUSB dtr = 0, rts = 0, after the GPIO update
C1_Witness ==
    /\ pc = "pins_set"
    /\ cdc_dtr /\ ~cdc_rts /\ ~dtr /\ ~rts
    /\ esp_en /\ ~esp_gpio0

\* C2: whenever the combined DTR and the combined RTS are both asserted, the
\* GPIO update leaves EN high and IO0 high, as it does when neither is asserted;
\* IO0 is already high once the first of the two pin writes is done.
C2_DualAssertionIsRunState ==
    LET both == CombinedDtr /\ CombinedRts
        neither == ~CombinedDtr /\ ~CombinedRts
    IN  /\ (pc = "pins_set" /\ (both \/ neither)) => (esp_en /\ esp_gpio0)
        /\ (pc = "set_en" /\ (both \/ neither)) => esp_gpio0

\* both asserted (one by each class), pins updated
C2_Witness ==
    /\ pc = "pins_set"
    /\ cdc_dtr /\ rts /\ ~cdc_rts /\ ~dtr
    /\ esp_en /\ esp_gpio0

-----------------------------------------------------------------------------
(* Properties of WebUsbClass (Spec) *)

IsControl == op \in {"control_in", "control_out"}

\* the last transfer was neither accepted nor rejected
Unhandled == accepts = 0 /\ rejects = 0

VendorCodes == {WEBUSB_VENDOR_CODE, MS_VENDOR_CODE}

\* C3: a GET_LINE_CODING of length 7 to the comm interface is accepted and, when
\* the last accepted SET_LINE_CODING since the last bus reset had a stop_bits
\* byte in 0..2 and a parity byte in 0..4, answers the first 7 bytes of its
\* payload.
C3_LineCodingRoundTrip ==
    (/\ op = "control_in"
     /\ ForCommInterface(req)
     /\ req.request = REQ_GET_LINE_CODING
     /\ req.length = 7)
    => /\ accepts = 1 /\ rejects = 0
       /\ Len(response) = 7
       /\ (/\ last_set # <<>>
           /\ last_set[5] \in 0..2
           /\ last_set[6] \in 0..4) => response = last_set

\* a GET_LINE_CODING answered with the payload set before
C3_Witness ==
    /\ op = "control_in"
    /\ req.request = REQ_GET_LINE_CODING
    /\ last_set = <<255, 2, 3, 127, 1, 3, 7>>
    /\ response = <<255, 2, 3, 127, 1, 3, 7>>

\* C4: a SET_LINE_CODING to the comm interface with at least 7 payload bytes is
\* accepted whatever its stop_bits and parity bytes; a stop_bits byte above 2
\* stores One, a parity byte above 4 stores None; the stored stop_bits and
\* parity always are variants of their enums (discriminants 0..2 and 0..4).
C4_SafeDefaultDecoding ==
    /\ line_coding.stop_bits \in StopBits
    /\ line_coding.parity_type \in ParityType
    /\ StopBitsAsU8(line_coding.stop_bits) \in 0..2
    /\ ParityTypeAsU8(line_coding.parity_type) \in 0..4
    /\ (/\ op = "control_out"
        /\ ForCommInterface(req)
        /\ req.request = REQ_SET_LINE_CODING
        /\ Len(data) >= 7)
       => /\ accepts = 1 /\ rejects = 0
          /\ data[5] > 2 => line_coding.stop_bits = "One"
          /\ data[6] > 4 => line_coding.parity_type = "None"
          /\ data[5] <= 2 => StopBitsAsU8(line_coding.stop_bits) = data[5]
          /\ data[6] <= 4 => ParityTypeAsU8(line_coding.parity_type) = data[6]

\* SET_LINE_CODING with stop_bits 255 and parity 255 accepted
C4_Witness ==
    /\ op = "control_out"
    /\ req.request = REQ_SET_LINE_CODING
    /\ Len(data) >= 7
    /\ data[5] = 255 /\ data[6] = 255
    /\ accepts = 1
    /\ line_coding.stop_bits = "One" /\ line_coding.parity_type = "None"
    /\ line_coding.data_rate = 67305985

\* the last transfer was class-type, interface-recipient, to another index
ToOtherInterface ==
    /\ IsControl
    /\ req.request_type = "Class"
    /\ req.recipient = "Interface"
    /\ req.index # comm_if

\* C5 as stated: a class-type, interface-recipient control request, IN or OUT,
\* of any request code, whose index is not the comm interface is neither
\* accepted nor rejected.
C5_OtherInterfaceIgnored == ToOtherInterface => Unhandled

\* C5 as amended: a class-type, interface-recipient control request whose index
\* is not the comm interface is neither accepted nor rejected and changes no
\* class state, unless it is a control IN request with request code 0x42 or
\* 0x43; those are resolved (accepted or rejected) whatever their index.
C5_OtherInterfaceIgnoredButVendorIn ==
    [][ /\ (ToOtherInterface' /\ ~(op' = "control_in" /\ req'.request \in VendorCodes))
           => (Unhandled' /\ UNCHANGED classVars /\ response' = <<>>)
        /\ (ToOtherInterface' /\ op' = "control_in" /\ req'.request \in VendorCodes)
           => (accepts' + rejects' = 1 /\ UNCHANGED classVars)
      ]_vars

\* SET_CONTROL_LINE_STATE with value 3 to interface 7: ignored, lines unchanged
C5_Witness ==
    /\ op = "control_out"
    /\ ToOtherInterface
    /\ req.request = REQ_SET_CONTROL_LINE_STATE
    /\ req.value = 3
    /\ Unhandled
    /\ ~dtr /\ ~rts

\* C6 as stated: in either direction a request is resolved iff it is class-type,
\* interface-recipient and addressed to the comm interface, or its request code
\* is 0x42 or 0x43.
C6_SamePolicyBothDirections ==
    IsControl =>
        (~Unhandled <=> (ForCommInterface(req) \/ req.request \in VendorCodes))

\* C6 as amended: a control IN request is resolved iff it is class-type,
\* interface-recipient and addressed to the comm interface, or its request code
\* is 0x42 or 0x43; a control OUT request is resolved iff it is class-type,
\* interface-recipient and addressed to the comm interface (the vendor codes
\* make no exception there); every other request changes no class state.
C6_AcceptancePolicy ==
    [][ /\ op' = "control_in" =>
             (~Unhandled' <=>
                \/ (/\ req'.request_type = "Class"
                    /\ req'.recipient = "Interface"
                    /\ req'.index = comm_if)
                \/ req'.request \in VendorCodes)
        /\ op' = "control_out" =>
             (~Unhandled' <=>
                (/\ req'.request_type = "Class"
                 /\ req'.recipient = "Interface"
                 /\ req'.index = comm_if))
        /\ (IsControl' /\ Unhandled') => UNCHANGED classVars
      ]_vars

\* the MS vendor request, vendor-type and device-recipient, is answered
C6_Witness ==
    /\ op = "control_in"
    /\ req.request = MS_VENDOR_CODE
    /\ req.request_type = "Vendor"
    /\ req.recipient = "Device"
    /\ accepts = 1
    /\ Len(response) > 0

\* the supported, well-formed control IN requests
SupportedIn(r) ==
    \/ r.request = REQ_GET_LINE_CODING /\ r.length = 7
    \/ r.request = WEBUSB_VENDOR_CODE /\ r.index = 2
    \/ r.request = MS_VENDOR_CODE /\ r.index = 7

\* the supported, well-formed control OUT requests
SupportedOut(r, d) ==
    \/ r.request = REQ_SEND_ENCAPSULATED_COMMAND
    \/ r.request = REQ_SET_LINE_CODING /\ Len(d) >= 7
    \/ r.request = REQ_SET_CONTROL_LINE_STATE

\* C7: every control request that passes the filter of its direction is
\* resolved exactly once; if it is not a supported well-formed request it is
\* resolved by one reject and LineCoding, dtr and rts are unchanged; a
\* supported one is resolved by one accept.
C7_UnsupportedRejected ==
    [][ /\ (op' = "control_in" /\ HandledIn(req')) =>
             /\ accepts' + rejects' = 1
             /\ SupportedIn(req') => accepts' = 1
             /\ ~SupportedIn(req') =>
                  (rejects' = 1 /\ response' = <<>> /\ UNCHANGED classVars)
        /\ (op' = "control_out" /\ HandledOut(req')) =>
             /\ accepts' + rejects' = 1
             /\ SupportedOut(req', data') => accepts' = 1
             /\ ~SupportedOut(req', data') => (rejects' = 1 /\ UNCHANGED classVars)
      ]_vars

\* a SET_LINE_CODING with 6 payload bytes rejected, after an accepted one
C7_Witness ==
    /\ op = "control_out"
    /\ ForCommInterface(req)
    /\ req.request = REQ_SET_LINE_CODING
    /\ Len(data) = 6
    /\ rejects = 1 /\ accepts = 0
    /\ line_coding.data_rate = 115200

\* bit n of v
Bit(v, n) == ((v \div (2 ^ n)) % 2) = 1

\* the last transfer was an accepted SET_CONTROL_LINE_STATE
AcceptedLineState ==
    /\ op = "control_out"
    /\ req.request = REQ_SET_CONTROL_LINE_STATE
    /\ accepts = 1

\* C8: a SET_CONTROL_LINE_STATE to the comm interface is accepted, sets dtr to
\* bit 0 and rts to bit 1 of its value, whatever the higher bits, and leaves
\* LineCoding unchanged; dtr and rts change in no step but an accepted
\* SET_CONTROL_LINE_STATE or a bus reset.
C8_ControlLineState ==
    [][ /\ (/\ op' = "control_out"
            /\ ForCommInterface(req')
            /\ req'.request = REQ_SET_CONTROL_LINE_STATE)
           => /\ accepts' = 1 /\ rejects' = 0
              /\ dtr' = Bit(req'.value, 0)
              /\ rts' = Bit(req'.value, 1)
              /\ line_coding' = line_coding
        /\ (dtr' # dtr \/ rts' # rts) => (AcceptedLineState' \/ op' = "reset")
      ]_vars

\* value 0xFFFD: bit 0 set, bit 1 clear, every higher bit set
C8_Witness ==
    /\ AcceptedLineState
    /\ req.value = 65533
    /\ dtr /\ ~rts

\* C9: after a bus reset dtr and rts are false and LineCoding is 8000 baud, one
\* stop bit, no parity, 8 data bits, the values the class is constructed with.
C9_ResetRestoresConstruction ==
    op = "reset" =>
        /\ dtr = FALSE
        /\ rts = FALSE
        /\ line_coding.data_rate = 8000
        /\ line_coding.stop_bits = "One"
        /\ line_coding.parity_type = "None"
        /\ line_coding.data_bits = 8
        /\ line_coding = NewLineCoding

\* a bus reset right after an accepted SET_LINE_CODING (0x7F0302FF baud, two
\* stop bits, space parity, 7 data bits) of which nothing is left
C9_Witness ==
    /\ op = "reset"
    /\ req.request = REQ_SET_LINE_CODING
    /\ accepts = 1
    /\ data = <<255, 2, 3, 127, 2, 4, 7>>
    /\ line_coding = NewLineCoding
    /\ ~dtr /\ ~rts

\* the last transfer was an accepted SET_LINE_CODING
AcceptedSetLineCoding ==
    /\ op = "control_out"
    /\ ForCommInterface(req)
    /\ req.request = REQ_SET_LINE_CODING
    /\ Len(data) >= 7
    /\ accepts = 1

\* C10 as stated: LineCoding changes in no step but an accepted
\* SET_LINE_CODING; a bus reset leaves it unchanged.
C10_OnlySetLineCoding ==
    [][line_coding' # line_coding => AcceptedSetLineCoding']_vars

\* C10 as amended: LineCoding changes in no step but an accepted
\* SET_LINE_CODING to the comm interface or a bus reset (which stores the
\* default); GET_LINE_CODING, SET_CONTROL_LINE_STATE, SEND_ENCAPSULATED_COMMAND,
\* vendor requests, rejected or ignored requests and packet reads and writes
\* leave all four fields unchanged.
C10_OnlySetLineCodingOrReset ==
    [][ /\ line_coding' # line_coding => (AcceptedSetLineCoding' \/ op' = "reset")
        /\ (op' = "reset" /\ line_coding' # line_coding) =>
              line_coding' = LineCodingDefault
      ]_vars

\* a GET_LINE_CODING answered while a line coding set by the host is stored
C10_Witness ==
    /\ op = "control_in"
    /\ req.request = REQ_GET_LINE_CODING
    /\ accepts = 1
    /\ line_coding.data_rate = 115200
    /\ line_coding.stop_bits = "Two"

-----------------------------------------------------------------------------
(* Properties of the data paths and of the pin update (SpecBridge) *)

\* the levels set_pins produces for the combined control lines of both classes
DerivedEn == EnLevel(PinsDtrArg, PinsRtsArg)
DerivedGpio0 == Gpio0Level(PinsDtrArg, PinsRtsArg)

\* C11: at the end of every loop iteration, whether or not the poll reported
\* activity and also when a bus reset cleared dtr/rts, esp_en and esp_gpio0
\* are the levels the boot-mode logic gives for the current combined DTR/RTS.
C11_PinsRederivedEveryIteration ==
    pc = "poll" => (esp_en = DerivedEn /\ esp_gpio0 = DerivedGpio0)

\* the bytes of a log of <<byte, ok>> offers
RECURSIVE OfferedBytes(_)
OfferedBytes(log) ==
    IF log = <<>> THEN <<>> ELSE <<Head(log)[1]>> \o OfferedBytes(Tail(log))

\* a sequence without its last element
Front(q) == SubSeq(q, 1, Len(q) - 1)

\* C12: in the configured state every byte taken from the UART is offered
\* exactly once to the CDC-ACM class and then exactly once to the WebUSB
\* class, in the order received; a refused write neither keeps the byte from
\* the other class, nor is repeated, nor ends the drain, which only ends when
\* the UART has no byte.
C12_ByteFanOut ==
    /\ pc \in {"drain", "poll"} =>
          /\ OfferedBytes(cdc_offered) = uart_rx
          /\ OfferedBytes(web_offered) = uart_rx
    /\ pc = "write_cdc" =>
          /\ uart_rx # <<>>
          /\ byte = uart_rx[Len(uart_rx)]
          /\ OfferedBytes(cdc_offered) = Front(uart_rx)
          /\ OfferedBytes(web_offered) = Front(uart_rx)
    /\ pc = "write_webusb" =>
          /\ uart_rx # <<>>
          /\ byte = uart_rx[Len(uart_rx)]
          /\ OfferedBytes(cdc_offered) = uart_rx
          /\ OfferedBytes(web_offered) = Front(uart_rx)

\* the drain went on to a second byte after both classes refused the first
C12_Witness ==
    /\ pc = "poll"
    /\ device_state = "Configured"
    /\ Len(uart_rx) = 2
    /\ cdc_offered = << <<uart_rx[1], FALSE>>, <<uart_rx[2], TRUE>> >>
    /\ web_offered = << <<uart_rx[1], FALSE>>, <<uart_rx[2], FALSE>> >>

\* C13: in an iteration with activity the bytes the UART transmitter accepted
\* are the bytes of the CDC-ACM read followed by the bytes of the WebUSB read,
\* each once and in order, however often the UART refuses; the WebUSB read is
\* not issued before every CDC byte has been accepted.
C13_LosslessOrderedForwarding ==
    /\ pc = "forward_cdc" =>
          /\ uart_tx = SubSeq(cdc_read, 1, offset)
          /\ offset < Len(cdc_read)
          /\ ~web_read_issued
    /\ pc = "read_webusb" => (uart_tx = cdc_read /\ ~web_read_issued)
    /\ pc = "forward_webusb" =>
          /\ uart_tx = cdc_read \o SubSeq(web_read, 1, offset)
          /\ offset < Len(web_read)
    /\ pc \in {"set_pins", "set_gpio0", "set_en", "pins_set"} =>
          uart_tx = cdc_read \o web_read

\* both reads returned bytes, the UART refused at least once, all arrived
C13_Witness ==
    /\ pc = "set_pins"
    /\ Len(cdc_read) = 2
    /\ Len(web_read) = 2
    /\ uart_refused
    /\ uart_tx = <<1, 2, 17, 18>>

\* C18: while the device is not Configured the loop reads no byte from the
\* UART and writes to neither USB class.
C18_DrainGatedOnConfigured ==
    device_state # "Configured" =>
        /\ pc \notin {"drain", "write_cdc", "write_webusb"}
        /\ uart_rx = <<>>
        /\ cdc_offered = <<>>
        /\ web_offered = <<>>

\* an iteration with activity has ended without a drain: the device has its
\* address but no configuration
C18_Witness ==
    /\ pc = "poll"
    /\ device_state = "Addressed"
    /\ led

\* C20 as stated: esp_en and esp_gpio0 are never both low, the state between
\* the two pin writes of one set_pins call included.
C20_NeverBothLow == esp_en \/ esp_gpio0

\* C20 as amended: esp_en and esp_gpio0 are never both low outside a set_pins
\* call. Inside a call they are both low between the write to esp_gpio0 and
\* the write to esp_en only when the call is for DTR asserted alone and the
\* update before it left EN low (RTS asserted alone); the write to esp_en
\* then raises EN.
C20_BothLowOnlyBetweenWrites ==
    (~esp_en /\ ~esp_gpio0) =>
        /\ pc = "set_en"
        /\ ~pin_dtr
        /\ pin_rts
        /\ EnLevel(pin_dtr, pin_rts)

\* the state between the two writes of a call for DTR alone, after the update
\* before it had left EN low
C20_Witness ==
    /\ pc = "set_en"
    /\ ~pin_dtr
    /\ pin_rts
    /\ ~esp_en
    /\ ~esp_gpio0

-----------------------------------------------------------------------------
(* DescriptorBuilder at work (builder.rs; class.rs:282-320).               *)
(* Specification SpecBuilder.                                              *)

\* what a caller's region holds before the builder writes to it
RegionFills == {0, 238}

\* arguments of the write calls
WriteInputs == {<<>>, <<7>>, <<8, 9>>}
U16Inputs == {0, 255, 256, 43981}
U32Inputs == {16909060, 2147483647}
Utf16Inputs == {<<>>, <<65>>, <<65, 128512>>}

\* DescriptorBuilder::new over a caller's region
BuilderNew ==
    /\ script = "none"
    /\ \E fill \in RegionFills :
          builder' = DescriptorBuilder_new([i \in 1..RegionLen |-> fill])
    /\ script' = "calls"
    /\ panicked' = FALSE
    /\ calls' = <<>>
    /\ marks' = <<>>
    /\ UNCHANGED <<classVars, xferVars, bridgeVars, facadeVars>>

\* one write call on the builder: it panics when it does not fit
BuilderCall(c) ==
    /\ ~panicked
    /\ IF Fits(builder, c)
       THEN /\ builder' = ApplyCall(builder, c)
            /\ calls' = Append(calls, c)
            /\ marks' = Append(marks, builder.position)
            /\ panicked' = FALSE
       ELSE /\ panicked' = TRUE
            /\ UNCHANGED <<builder, calls, marks>>
    /\ UNCHANGED <<script, classVars, xferVars, bridgeVars, facadeVars>>

\* DescriptorBuilder::write
Write ==
    /\ script = "calls"
    /\ Len(calls) < MaxCalls
    /\ \E bytes \in WriteInputs : BuilderCall(CallWrite(bytes))

\* DescriptorBuilder::write_u16
WriteU16 ==
    /\ script = "calls"
    /\ Len(calls) < MaxCalls
    /\ \E val \in U16Inputs : BuilderCall(CallU16(val))

\* DescriptorBuilder::write_u32
WriteU32 ==
    /\ script = "calls"
    /\ Len(calls) < MaxCalls
    /\ \E val \in U32Inputs : BuilderCall(CallU32(val))

\* DescriptorBuilder::write_utf16
WriteUtf16 ==
    /\ script = "calls"
    /\ Len(calls) < MaxCalls
    /\ \E val \in Utf16Inputs : BuilderCall(CallUtf16(val))

\* control_in, MS_GET_DESCRIPTOR_SET arm: DescriptorBuilder::new(&mut buf)
MsSetNew ==
    /\ script = "none"
    /\ builder' = DescriptorBuilder_new([i \in 1..MsBufferLen |-> 0])
    /\ script' = "ms_set"
    /\ panicked' = FALSE
    /\ calls' = <<>>
    /\ marks' = <<>>
    /\ UNCHANGED <<classVars, xferVars, bridgeVars, facadeVars>>

\* control_in, MS_GET_DESCRIPTOR_SET arm: its next call on the builder
MsSetCall ==
    /\ script = "ms_set"
    /\ Len(calls) < Len(MsCalls)
    /\ BuilderCall(MsCalls[Len(calls) + 1])

NextBuilder ==
    \/ BuilderNew
    \/ Write
    \/ WriteU16
    \/ WriteU32
    \/ WriteUtf16
    \/ MsSetNew
    \/ MsSetCall

SpecBuilder == Init /\ [][NextBuilder]_vars

-----------------------------------------------------------------------------
(* Properties of the descriptors *)

\* the 16-bit little-endian number at byte offset pos of b
U16At(b, pos) == b[pos + 1] + 256 * b[pos + 2]

\* C14: the wTotalLength field of the MS OS 2.0 descriptor set header is 178,
\* the number of bytes the builder has written when the set is handed to the
\* transfer, and the wMSOSDescriptorSetTotalLength the BOS capability
\* advertises is the same number.
C14_TotalLengthConsistent ==
    /\ (op = "control_in" /\ req.request = MS_VENDOR_CODE
            /\ req.index = MS_GET_DESCRIPTOR_SET /\ accepts = 1) =>
          /\ Len(response) = 178
          /\ U16At(response, 8) = Len(response)
          /\ U16At(MsOsCapability, 21) = Len(response)
    /\ op = "get_bos_descriptors" =>
          /\ SubSeq(response, Len(WebUsbCapability) + 1, Len(response)) = MsOsCapability
          /\ U16At(response, Len(WebUsbCapability) + 21) = Len(MsDescriptorSet)

\* the descriptor set has been handed to a vendor request of the host
C14_Witness ==
    /\ op = "control_in"
    /\ req.request_type = "Vendor"
    /\ req.request = MS_VENDOR_CODE
    /\ req.index = MS_GET_DESCRIPTOR_SET
    /\ accepts = 1
    /\ Len(response) = 178

\* little-endian encodings, low byte first
LE16(v) == <<v % 256, v \div 256>>
LE32(v) == <<v % 256, (v \div 256) % 256, (v \div 65536) % 256, v \div 16777216>>

RECURSIVE UnitsLE(_)
UnitsLE(units) == IF units = <<>> THEN <<>> ELSE LE16(Head(units)) \o UnitsLE(Tail(units))

\* the bytes a call is to append
Encoding(c) ==
    CASE c.kind = "write" -> c.str
      [] c.kind = "write_u16" -> LE16(c.val)
      [] c.kind = "write_u32" -> LE32(c.val)
      [] c.kind = "write_utf16" -> UnitsLE(encode_utf16(c.str))

RECURSIVE Encodings(_)
Encodings(cs) == IF cs = <<>> THEN <<>> ELSE Encoding(Head(cs)) \o Encodings(Tail(cs))

\* C15: after any sequence of write calls that fits the region, position is
\* the sum of the lengths written (n per write of n bytes, 2 per write_u16, 4
\* per write_u32, 2 per UTF-16 code unit) and buf() is the concatenation of
\* the encodings in call order, integers little-endian: write_u16(0x00FF)
\* appends FF 00, write_u32(0x01020304) appends 04 03 02 01. Hence no call
\* changes a byte before the cursor it started at.
C15_AppendSemantics ==
    /\ LE16(255) = <<255, 0>>
    /\ LE32(16909060) = <<4, 3, 2, 1>>
    /\ (script = "calls" /\ ~panicked) =>
          /\ builder.position = Len(Encodings(calls))
          /\ buf(builder) = Encodings(calls)
          /\ Len(builder.buf) = RegionLen
          /\ \A k \in 1..Len(calls) :
                SubSeq(builder.buf, marks[k] + 1, marks[k] + Len(Encoding(calls[k])))
                    = Encoding(calls[k])

\* three calls have filled a region that held other bytes
C15_Witness ==
    /\ script = "calls"
    /\ ~panicked
    /\ calls = <<CallU16(255), CallU32(16909060), CallWrite(<<8, 9>>)>>
    /\ builder.position = 8
    /\ buf(builder) = <<255, 0, 4, 3, 2, 1, 8, 9>>

\* C16: the URL response is 19 bytes; its first byte, bLength, is that
\* number, then come 0x03 and 0x01, then the 16 bytes of "tide.emfcamp.org"
\* with no NUL after them.
C16_UrlDescriptor ==
    (op = "control_in" /\ req.request = WEBUSB_VENDOR_CODE
        /\ req.index = WEBUSB_GET_URL /\ accepts = 1) =>
       /\ Len(response) = 19
       /\ response[1] = Len(response)
       /\ response[2] = 3
       /\ response[3] = 1
       /\ SubSeq(response, 4, Len(response)) =
             <<116, 105, 100, 101, 46, 101, 109, 102, 99, 97, 109, 112, 46, 111, 114, 103>>

\* the URL descriptor has been handed to a vendor request of the host
C16_Witness ==
    /\ op = "control_in"
    /\ req.request_type = "Vendor"
    /\ req.request = WEBUSB_VENDOR_CODE
    /\ req.index = WEBUSB_GET_URL
    /\ accepts = 1
    /\ Len(response) = 19

\* index in MsCalls of the first call of each of the five descriptors
MsDescriptorStarts == <<1, 5, 9, 13, 17>>

\* C19: while the MS OS 2.0 set is built the cursor never passes the 180 byte
\* buffer, and in the finished set every length field is the number of bytes
\* emitted for what it covers: the wLength of the five descriptors (10, 8, 8,
\* 20, 132), the configuration subset length 168 up to the end of the set,
\* the function subset length 160 up to the end of the set, the property name
\* length 42 and the property data length 80.
C19_NestedLengths ==
    script = "ms_set" =>
       /\ ~panicked
       /\ Len(builder.buf) = MsBufferLen
       /\ builder.position <= MsBufferLen
       /\ Len(calls) = Len(MsCalls) =>
             LET b == builder.buf
                 end == builder.position
                 start(j) == marks[MsDescriptorStarts[j]]
                 stop(j) == IF j < 5 THEN marks[MsDescriptorStarts[j + 1]] ELSE end
             IN  /\ \A j \in 1..5 : U16At(b, start(j)) = stop(j) - start(j)
                 /\ [j \in 1..5 |-> U16At(b, start(j))] = <<10, 8, 8, 20, 132>>
                 /\ U16At(b, marks[8]) = end - start(2)
                 /\ U16At(b, marks[8]) = 168
                 /\ U16At(b, marks[12]) = end - start(3)
                 /\ U16At(b, marks[12]) = 160
                 /\ U16At(b, marks[20]) = marks[22] - marks[21]
                 /\ U16At(b, marks[20]) = 42
                 /\ U16At(b, marks[22]) = end - marks[23]
                 /\ U16At(b, marks[22]) = 80

\* the last call of the set has been made
C19_Witness ==
    /\ script = "ms_set"
    /\ ~panicked
    /\ Len(calls) = Len(MsCalls)
    /\ builder.position = 178

-----------------------------------------------------------------------------
(* The WebUSB stream facade over WebUsbClass::write_packet: the outbound   *)
(* PacketBuffer with its short-packet bookkeeping (spec 3 and 4.3).       *)
(* Specification SpecFacade.                                               *)

\* capacity of the outbound byte queue: at least one maximum packet
WriteBufCapacity == MaxPacket + 1

\* the data of the k-th write() call: len bytes, each carrying k
RECURSIVE WriteData(_, _)
WriteData(k, len) == IF len = 0 THEN <<>> ELSE <<k>> \o WriteData(k, len - 1)

Min(a, b) == IF a < b THEN a ELSE b

\* mutant: no zero-length packet is queued after a full packet
NeedsZlp_Never(full) == FALSE

\* a previous transmission exactly filled a max-size packet: a zero-length
\* packet must be queued before new data
NeedsZlp(full) == full

\* the packet flush is to submit next: the zero-length packet, or the next
\* chunk of the buffer, at most one maximum packet
NextPacket(queue, full) ==
    IF NeedsZlp(full) THEN <<>> ELSE SubSeq(queue, 1, Min(MaxPacket, Len(queue)))

\* write(data): as many bytes as fit are copied into the outbound buffer, then
\* one packet is submitted with write_packet unless the endpoint still holds
\* the previous packet (would block)
FacadeWrite ==
    /\ writes < MaxWrites
    /\ \E len \in 1..(MaxPacket + 1) :
          LET copied == Min(len, WriteBufCapacity - Len(write_buf))
              queue == write_buf \o WriteData(writes + 1, copied)
              packet == NextPacket(queue, last_full)
          IN  /\ writes' = writes + 1
              /\ IF ep_busy
                 THEN /\ write_packet("WouldBlock")
                      /\ write_buf' = queue
                      /\ UNCHANGED <<last_full, ep_busy, wire>>
                 ELSE /\ write_packet("Ok")
                      /\ wire' = Append(wire, packet)
                      /\ write_buf' = SubSeq(queue, Len(packet) + 1, Len(queue))
                      /\ last_full' = (Len(packet) = MaxPacket)
                      /\ ep_busy' = TRUE
    /\ UNCHANGED <<bridgeVars, builderVars>>

\* the host has picked up the packet in the IN endpoint
HostPicksUp ==
    /\ ep_busy
    /\ ep_busy' = FALSE
    /\ UNCHANGED <<write_buf, last_full, wire, writes>>
    /\ UNCHANGED <<classVars, xferVars, bridgeVars, builderVars>>

NextFacade ==
    \/ FacadeWrite
    \/ HostPicksUp

SpecFacade == Init /\ [][NextFacade]_vars

-----------------------------------------------------------------------------
(* Progress of the bridge loop (SpecBridgeLive) *)

\* C21: no USB-facing step keeps the loop where it is: the loop stays at the
\* same place only in a forwarding loop, when the UART transmitter refused
\* the byte; it leaves a forwarding loop, towards the GPIO update and the next
\* poll, only by a step in which the transmitter took a byte. When the
\* transmitter takes every offered byte in the end and the receiver runs out
\* of bytes, every iteration ends and the USB device is polled again and again.
C21_LoopProgress ==
    /\ [][ /\ pc' = pc => (pc \in ForwardLoops /\ uart_tx' = uart_tx /\ uart_refused')
          /\ (pc \in ForwardLoops /\ uart_tx' = uart_tx) => pc' = pc
        ]_vars
    /\ []<>(pc = "poll")
    /\ \A p \in ForwardLoops : (pc = p) ~> (pc = "poll")

\* the loop is waiting: the UART has refused the first byte of a CDC-ACM read
C21_Witness ==
    /\ pc = "forward_cdc"
    /\ uart_refused
    /\ offset = 0
    /\ count = MaxRead
    /\ uart_tx = <<>>

====
